---- MODULE Spec2Model ----
(***************************************************************************)
(* Model of script.js: a task list with an activity log, both mirrored to  *)
(* localStorage, driven by DOM events.                                     *)
(*                                                                         *)
(* A JavaScript string is a sequence of one-character strings, so that     *)
(* trim, the template literals, JSON.stringify and JSON.parse are computed *)
(* character by character.  A rendered <li> is modelled by the value its   *)
(* delete handler closes over.  Every action is one whole event handler.   *)
(***************************************************************************)
EXTENDS Integers, Sequences, FiniteSets, TLC

VARIABLES
    tasks,          \* TaskManager.tasks
    logs,           \* LogManager.logs
    localStorage,   \* function: key -> stored text, for the keys present
    taskList,       \* rows of #taskList: the task each row's handler captured
    logList,        \* rows of #logList: the log each row's handler captured
    taskInput,      \* #taskInput.value
    taskAdded,      \* taskManager.taskAdded.subscribers
    taskRemoved,    \* taskManager.taskRemoved.subscribers
    observer,       \* subscribers of a stand-alone Observer instance
    trace,          \* what the last handler did: setItem / notify / call / alert
    gesture         \* the last event handled

vars == <<tasks, logs, localStorage, taskList, logList, taskInput,
          taskAdded, taskRemoved, observer, trace, gesture>>

----------------------------------------------------------------------------
(* Bounds *)

MaxTaskRows == 2
MaxLogRows == 2
MaxSubs == 3

\* Texts the user can leave in the entry field before submitting.
Inputs ==
    { <<>>,
      <<" ">>,
      <<" ", "a", "\t">>,
      <<"\"", "\\">> }

\* Callbacks and values used to exercise a stand-alone Observer.
Fns == {"f", "g", "h"}
Datas == { <<"a">>, <<"b">> }

----------------------------------------------------------------------------
(* Strings *)

WhiteSpace == {" ", "\t", "\n", "\r"}

RECURSIVE trimStart(_)
trimStart(s) ==
    IF s # <<>> /\ Head(s) \in WhiteSpace THEN trimStart(Tail(s)) ELSE s

RECURSIVE trimEnd(_)
trimEnd(s) ==
    IF s # <<>> /\ s[Len(s)] \in WhiteSpace
    THEN trimEnd(SubSeq(s, 1, Len(s) - 1))
    ELSE s

\* String.prototype.trim
trim(s) == trimEnd(trimStart(s))

\* `Tâche ajoutée: "${task}"`
TaskAddedMessage(task) ==
    <<"T","â","c","h","e"," ","a","j","o","u","t","é","e",":"," ","\"">>
        \o task \o <<"\"">>

\* `Tâche supprimée: "${task}"`
TaskRemovedMessage(task) ==
    <<"T","â","c","h","e"," ","s","u","p","p","r","i","m","é","e",":"," ","\"">>
        \o task \o <<"\"">>

\* "Veuillez saisir une tâche !"
AlertMessage ==
    <<"V","e","u","i","l","l","e","z"," ","s","a","i","s","i","r"," ",
      "u","n","e"," ","t","â","c","h","e"," ","!">>

----------------------------------------------------------------------------
(* JSON, for arrays of strings *)

\* The escape JSON.stringify writes for one character of a string.
QuoteChar(c) ==
    IF c = "\"" THEN <<"\\", "\"">>
    ELSE IF c = "\\" THEN <<"\\", "\\">>
    ELSE IF c = "\n" THEN <<"\\", "n">>
    ELSE IF c = "\t" THEN <<"\\", "t">>
    ELSE IF c = "\r" THEN <<"\\", "r">>
    ELSE <<c>>

RECURSIVE QuoteChars(_)
QuoteChars(s) ==
    IF s = <<>> THEN <<>> ELSE QuoteChar(Head(s)) \o QuoteChars(Tail(s))

QuoteString(s) == <<"\"">> \o QuoteChars(s) \o <<"\"">>

RECURSIVE JoinQuoted(_)
JoinQuoted(arr) ==
    IF arr = <<>> THEN <<>>
    ELSE IF Len(arr) = 1 THEN QuoteString(arr[1])
    ELSE QuoteString(Head(arr)) \o <<",">> \o JoinQuoted(Tail(arr))

\* JSON.stringify of an array of strings
JSONstringify(arr) == <<"[">> \o JoinQuoted(arr) \o <<"]">>

\* The character an escape \c stands for.
Unescape(c) ==
    IF c = "n" THEN "\n"
    ELSE IF c = "t" THEN "\t"
    ELSE IF c = "r" THEN "\r"
    ELSE c

\* Reads a string literal whose opening quote is before position i.
RECURSIVE ParseString(_, _, _)
ParseString(text, i, acc) ==
    IF text[i] = "\"" THEN [val |-> acc, next |-> i + 1]
    ELSE IF text[i] = "\\"
         THEN ParseString(text, i + 2, Append(acc, Unescape(text[i + 1])))
         ELSE ParseString(text, i + 1, Append(acc, text[i]))

RECURSIVE ParseElements(_, _, _)
ParseElements(text, i, acc) ==
    IF text[i] = "]" THEN acc
    ELSE IF text[i] = "," THEN ParseElements(text, i + 1, acc)
    ELSE LET r == ParseString(text, i + 1, <<>>)
         IN  ParseElements(text, r.next, Append(acc, r.val))

\* JSON.parse of the text of an array of strings
JSONparse(text) == ParseElements(text, 2, <<>>)

----------------------------------------------------------------------------
(* localStorage *)

\* localStorage.getItem: null when the key is absent
getItem(store, key) ==
    IF key \in DOMAIN store
    THEN [isNull |-> FALSE, value |-> store[key]]
    ELSE [isNull |-> TRUE, value |-> <<>>]

\* JavaScript truthiness of what getItem returned: null and "" are falsy
Truthy(item) == ~item.isNull /\ item.value # <<>>

\* localStorage.setItem
setItem(store, key, value) ==
    [k \in DOMAIN store \cup {key} |-> IF k = key THEN value ELSE store[k]]

----------------------------------------------------------------------------
(* The program state threaded through the methods *)

Event(op, name, data) == [op |-> op, name |-> name, data |-> data]

Record(st, op, name, data) ==
    [st EXCEPT !.trace = Append(@, Event(op, name, data))]

\* Array.prototype.filter(x => x !== item)
RECURSIVE Without(_, _)
Without(arr, item) ==
    IF arr = <<>> THEN <<>>
    ELSE IF Head(arr) # item THEN <<Head(arr)>> \o Without(Tail(arr), item)
    ELSE Without(Tail(arr), item)

\* li.remove() on row i of a list
RemoveRow(rows, i) == SubSeq(rows, 1, i - 1) \o SubSeq(rows, i + 1, Len(rows))

saveTasksToStorage(st) ==
    LET text == JSONstringify(st.tasks)
    IN  Record([st EXCEPT !.localStorage = setItem(@, "tasks", text)],
               "setItem", "tasks", text)

saveLogsToStorage(st) ==
    LET text == JSONstringify(st.logs)
    IN  Record([st EXCEPT !.localStorage = setItem(@, "logs", text)],
               "setItem", "logs", text)

loadTasksFromStorage(store) ==
    LET item == getItem(store, "tasks")
    IN  IF Truthy(item) THEN JSONparse(item.value) ELSE <<>>

\* loadLogsFromStorage reading the key of the tasks
loadLogsFromStorage_TasksKey(store) ==
    LET item == getItem(store, "tasks")
    IN  IF Truthy(item) THEN JSONparse(item.value) ELSE <<>>

loadLogsFromStorage(store) ==
    LET item == getItem(store, "logs")
    IN  IF Truthy(item) THEN JSONparse(item.value) ELSE <<>>

\* addLog saving before and after the push
addLog_SaveTwice(st, log) ==
    saveLogsToStorage([saveLogsToStorage(st) EXCEPT !.logs = Append(@, log)])

addLog(st, log) ==
    saveLogsToStorage([st EXCEPT !.logs = Append(@, log)])

\* removeLog without the save after the filter
removeLog_NoSave(st, log) == [st EXCEPT !.logs = Without(@, log)]

removeLog(st, log) ==
    saveLogsToStorage([st EXCEPT !.logs = Without(@, log)])

addTaskToUI(st, task) == [st EXCEPT !.taskList = Append(@, task)]

addLogToUI(st, log) == [st EXCEPT !.logList = Append(@, log)]

\* The subscriber of taskAdded
onTaskAdded(st, task) ==
    addLog(addLogToUI(addTaskToUI(st, task), TaskAddedMessage(task)),
           TaskAddedMessage(task))

\* The taskRemoved subscriber with the message of the taskAdded one
onTaskRemoved_AddedMessage(st, task) ==
    addLog(addLogToUI(st, TaskAddedMessage(task)), TaskAddedMessage(task))

\* The subscriber of taskRemoved
onTaskRemoved(st, task) ==
    addLog(addLogToUI(st, TaskRemovedMessage(task)), TaskRemovedMessage(task))

\* Calling a subscriber fn(data)
Call(st, fn, data) ==
    LET called == Record(st, "call", fn, data)
    IN  IF fn = "onTaskAdded" THEN onTaskAdded(called, data)
        ELSE IF fn = "onTaskRemoved" THEN onTaskRemoved(called, data)
        ELSE called

\* forEach skipping a callback already called
RECURSIVE forEachSubscriber_Once(_, _, _)
forEachSubscriber_Once(st, subscribers, data) ==
    IF subscribers = <<>> THEN st
    ELSE forEachSubscriber_Once(Call(st, Head(subscribers), data),
                                Without(Tail(subscribers), Head(subscribers)),
                                data)

\* this.subscribers.forEach(fn => fn(data))
RECURSIVE forEachSubscriber(_, _, _)
forEachSubscriber(st, subscribers, data) ==
    IF subscribers = <<>> THEN st
    ELSE forEachSubscriber(Call(st, Head(subscribers), data),
                           Tail(subscribers), data)

\* Observer.notify
notify(st, name, subscribers, data) ==
    forEachSubscriber(Record(st, "notify", name, data), subscribers, data)

\* Observer.subscribe
subscribe(subscribers, fn) == Append(subscribers, fn)

\* addTask with unshift in place of push
addTask_Unshift(st, task) ==
    LET pushed == [st EXCEPT !.tasks = <<task>> \o @]
        saved == saveTasksToStorage(pushed)
    IN  notify(saved, "taskAdded", saved.taskAdded, task)

addTask(st, task) ==
    LET pushed == [st EXCEPT !.tasks = Append(@, task)]
        saved == saveTasksToStorage(pushed)
    IN  notify(saved, "taskAdded", saved.taskAdded, task)

\* removeTask notifying before it saves
removeTask_NotifyFirst(st, task) ==
    LET filtered == [st EXCEPT !.tasks = Without(@, task)]
    IN  saveTasksToStorage(
            notify(filtered, "taskRemoved", filtered.taskRemoved, task))

\* s without its first element equal to item
RECURSIVE WithoutFirst(_, _)
WithoutFirst(arr, item) ==
    IF arr = <<>> THEN <<>>
    ELSE IF Head(arr) = item THEN Tail(arr)
    ELSE <<Head(arr)>> \o WithoutFirst(Tail(arr), item)

\* removeTask deleting one occurrence instead of filtering
removeTask_FirstOnly(st, task) ==
    LET filtered == [st EXCEPT !.tasks = WithoutFirst(@, task)]
        saved == saveTasksToStorage(filtered)
    IN  notify(saved, "taskRemoved", saved.taskRemoved, task)

removeTask(st, task) ==
    LET filtered == [st EXCEPT !.tasks = Without(@, task)]
        saved == saveTasksToStorage(filtered)
    IN  notify(saved, "taskRemoved", saved.taskRemoved, task)

\* handleAddTask testing the trimmed text but adding the raw one
handleAddTask_AddRaw(st) ==
    IF trim(st.taskInput) # <<>>
    THEN [addTask(st, st.taskInput) EXCEPT !.taskInput = <<>>]
    ELSE Record(st, "alert", "alert", AlertMessage)

\* handleAddTask without the trim
handleAddTask_NoTrim(st) ==
    LET task == st.taskInput
    IN  IF task # <<>>
        THEN [addTask(st, task) EXCEPT !.taskInput = <<>>]
        ELSE Record(st, "alert", "alert", AlertMessage)

handleAddTask(st) ==
    LET task == trim(st.taskInput)
    IN  IF task # <<>>
        THEN [addTask(st, task) EXCEPT !.taskInput = <<>>]
        ELSE Record(st, "alert", "alert", AlertMessage)

\* The task row's handler without li.remove()
taskDeleteClick_KeepRow(st, i) == removeTask(st, st.taskList[i])

\* The task row's handler removing the first row of the list
taskDeleteClick_FirstRow(st, i) ==
    LET removed == removeTask(st, st.taskList[i])
    IN  [removed EXCEPT !.taskList = RemoveRow(@, 1)]

\* The click handler of a task row's delete button
taskDeleteClick(st, i) ==
    LET removed == removeTask(st, st.taskList[i])
    IN  [removed EXCEPT !.taskList = RemoveRow(@, i)]

\* The log row's handler without the removeLog call
logDeleteClick_RowOnly(st, i) == [st EXCEPT !.logList = RemoveRow(@, i)]

\* The log row's handler going through removeTask
logDeleteClick_ViaTask(st, i) ==
    LET removed == removeLog(removeTask(st, st.logList[i]), st.logList[i])
    IN  [removed EXCEPT !.logList = RemoveRow(@, i)]

\* The click handler of a log row's delete button
logDeleteClick(st, i) ==
    LET removed == removeLog(st, st.logList[i])
    IN  [removed EXCEPT !.logList = RemoveRow(@, i)]

\* The handler with constructors that save what they loaded
DOMContentLoaded_SaveOnLoad(store) ==
    LET loadedTasks == loadTasksFromStorage(store)
        loadedLogs == loadLogsFromStorage(store)
    IN  [tasks |-> loadedTasks,
         logs |-> loadedLogs,
         localStorage |->
            setItem(setItem(store, "tasks", JSONstringify(loadedTasks)),
                    "logs", JSONstringify(loadedLogs)),
         taskList |-> loadedTasks,
         logList |-> loadedLogs,
         taskInput |-> <<>>,
         taskAdded |-> subscribe(<<>>, "onTaskAdded"),
         taskRemoved |-> subscribe(<<>>, "onTaskRemoved"),
         trace |-> <<>>]

\* The DOMContentLoaded handler: new TaskManager, new LogManager, new UI
DOMContentLoaded(store) ==
    LET loadedTasks == loadTasksFromStorage(store)
        loadedLogs == loadLogsFromStorage(store)
    IN  [tasks |-> loadedTasks,
         logs |-> loadedLogs,
         localStorage |-> store,
         taskList |-> loadedTasks,
         logList |-> loadedLogs,
         taskInput |-> <<>>,
         taskAdded |-> subscribe(<<>>, "onTaskAdded"),
         taskRemoved |-> subscribe(<<>>, "onTaskRemoved"),
         trace |-> <<>>]

----------------------------------------------------------------------------
(* The state machine *)

Current ==
    [tasks |-> tasks, logs |-> logs, localStorage |-> localStorage,
     taskList |-> taskList, logList |-> logList, taskInput |-> taskInput,
     taskAdded |-> taskAdded, taskRemoved |-> taskRemoved, trace |-> <<>>]

Becomes(st) ==
    /\ tasks' = st.tasks
    /\ logs' = st.logs
    /\ localStorage' = st.localStorage
    /\ taskList' = st.taskList
    /\ logList' = st.logList
    /\ taskInput' = st.taskInput
    /\ taskAdded' = st.taskAdded
    /\ taskRemoved' = st.taskRemoved
    /\ trace' = st.trace

Is(st) ==
    /\ tasks = st.tasks
    /\ logs = st.logs
    /\ localStorage = st.localStorage
    /\ taskList = st.taskList
    /\ logList = st.logList
    /\ taskInput = st.taskInput
    /\ taskAdded = st.taskAdded
    /\ taskRemoved = st.taskRemoved
    /\ trace = st.trace

\* The number of elements of arr equal to item.
Occurrences(arr, item) == Cardinality({k \in 1..Len(arr) : arr[k] = item})

\* The event handled last: its kind, the key pressed, the text it was about
\* (the entry text of a submit, the value of a deleted row), the row clicked,
\* and how often the deleted value was in its collection before.
Gesture(kind, key, text, row, had) ==
    [kind |-> kind, key |-> key, text |-> text, row |-> row, had |-> had]

\* Room for the rows a submit or a task delete appends.
RoomToLog == Len(logList) < MaxLogRows
RoomToAdd == Len(taskList) < MaxTaskRows /\ RoomToLog

EmptyStore == [k \in {} |-> <<>>]

\* First page load, nothing stored yet.
Init ==
    /\ Is(DOMContentLoaded(EmptyStore))
    /\ observer = <<>>
    /\ gesture = Gesture("load", "", <<>>, 0, 0)

\* The user edits the entry field.
Input(v) ==
    /\ taskInput' = v
    /\ trace' = <<>>
    /\ gesture' = Gesture("input", "", <<>>, 0, 0)
    /\ UNCHANGED <<tasks, logs, localStorage, taskList, logList,
                   taskAdded, taskRemoved, observer>>

\* click on #addTaskButton
Click ==
    /\ trim(taskInput) # <<>> => RoomToAdd
    /\ Becomes(handleAddTask(Current))
    /\ gesture' = Gesture("click", "", taskInput, 0, 0)
    /\ UNCHANGED observer

\* keydown on #taskInput
Keydown(key) ==
    /\ (key = "Enter" /\ trim(taskInput) # <<>>) => RoomToAdd
    /\ Becomes(IF key = "Enter" THEN handleAddTask(Current) ELSE Current)
    /\ gesture' = Gesture("keydown", key, taskInput, 0, 0)
    /\ UNCHANGED observer

\* click on the delete button of row i of #taskList
TaskDeleteClick(i) ==
    /\ RoomToLog
    /\ Becomes(taskDeleteClick(Current, i))
    /\ gesture' = Gesture("taskDelete", "", taskList[i], i,
                        Occurrences(tasks, taskList[i]))
    /\ UNCHANGED observer

\* click on the delete button of row i of #logList
LogDeleteClick(i) ==
    /\ Becomes(logDeleteClick(Current, i))
    /\ gesture' = Gesture("logDelete", "", logList[i], i,
                        Occurrences(logs, logList[i]))
    /\ UNCHANGED observer

\* The page is reloaded: the script runs again over what is stored.
Reload ==
    /\ Becomes(DOMContentLoaded(localStorage))
    /\ gesture' = Gesture("load", "", <<>>, 0, 0)
    /\ UNCHANGED observer

Next ==
    \/ \E v \in Inputs : Input(v)
    \/ Click
    \/ \E key \in {"Enter", "a"} : Keydown(key)
    \/ \E i \in 1..Len(taskList) : TaskDeleteClick(i)
    \/ \E i \in 1..Len(logList) : LogDeleteClick(i)
    \/ Reload

Spec == Init /\ [][Next]_vars

----------------------------------------------------------------------------
(* A stand-alone Observer: subscribe and notify with arbitrary callbacks *)

ObserverSubscribe(fn) ==
    /\ Len(observer) < MaxSubs
    /\ observer' = subscribe(observer, fn)
    /\ trace' = <<>>
    /\ gesture' = Gesture("subscribe", fn, <<>>, 0, 0)
    /\ UNCHANGED <<tasks, logs, localStorage, taskList, logList, taskInput,
                   taskAdded, taskRemoved>>

ObserverNotify(data) ==
    /\ Becomes(notify(Current, "observer", observer, data))
    /\ gesture' = Gesture("notify", "", data, 0, 0)
    /\ UNCHANGED observer

NextObserver ==
    \/ \E fn \in Fns : ObserverSubscribe(fn)
    \/ \E data \in Datas : ObserverNotify(data)

SpecObserver == Init /\ [][NextObserver]_vars

----------------------------------------------------------------------------
(* Vocabulary of the properties *)

IsNotify(e) == e.op = "notify"
IsCall(e) == e.op = "call"
IsSetItem(e) == e.op = "setItem"
IsAlert(e) == e.op = "alert"

\* The last event was a submit: a click on the button, or Enter in the field.
Submitted ==
    \/ gesture.kind = "click"
    \/ gesture.kind = "keydown" /\ gesture.key = "Enter"

\* The last event was a submit of a text that is not blank.
Accepted == Submitted /\ trim(gesture.text) # <<>>

\* The last event was a submit of an empty or whitespace-only text.
Rejected == Submitted /\ trim(gesture.text) = <<>>

\* The last event ran addTask, removeTask, addLog or removeLog.
Mutated == Accepted \/ gesture.kind \in {"taskDelete", "logDelete"}

\* The value stored under key is the serialization of arr.
Stored(key, arr) ==
    /\ key \in DOMAIN localStorage
    /\ localStorage[key] = JSONstringify(arr)

\* s without its k-th element.
DropAt(s, k) == [j \in 1..(Len(s) - 1) |-> IF j < k THEN s[j] ELSE s[j + 1]]

QuoteBackslash == <<"\"", "\\">>

----------------------------------------------------------------------------
C2_SubmitAppends ==
    [][Accepted' =>
        LET t == trim(gesture'.text)
        IN  /\ tasks' = Append(tasks, t)
            /\ localStorage'["tasks"] = JSONstringify(Append(tasks, t))
            /\ JSONparse(localStorage'["tasks"]) = Append(tasks, t)
            /\ SelectSeq(trace', IsNotify) = <<Event("notify", "taskAdded", t)>>
            /\ SelectSeq(trace', IsCall) = <<Event("call", "onTaskAdded", t)>>
      ]_vars

C2_Witness ==
    /\ Accepted
    /\ gesture.text # trim(gesture.text)
    /\ Len(tasks) = 2
    /\ tasks[1] # tasks[2]

(* C3: after every event, the rows of the task list are the task sequence  *)
(* and the rows of the log list are the log sequence, in the same order.   *)
C3_DisplayMatchesCollections ==
    /\ taskList = tasks
    /\ logList = logs

(* C4: every submit of a non-blank text and every click on a task row's    *)
(* delete button appends exactly one entry to the log sequence and one     *)
(* row with the same text to the log list; as the claim has it, the entry  *)
(* is Task added: "<text>" or Task removed: "<text>".                      *)
EnglishAdded(t) ==
    <<"T","a","s","k"," ","a","d","d","e","d",":"," ","\"">> \o t \o <<"\"">>

EnglishRemoved(t) ==
    <<"T","a","s","k"," ","r","e","m","o","v","e","d",":"," ","\"">>
        \o t \o <<"\"">>

C4_EnglishLogEntry ==
    [][/\ Accepted' =>
            /\ logs' = Append(logs, EnglishAdded(trim(gesture'.text)))
            /\ logList' = Append(logList, EnglishAdded(trim(gesture'.text)))
       /\ gesture'.kind = "taskDelete" =>
            /\ logs' = Append(logs, EnglishRemoved(gesture'.text))
            /\ logList' = Append(logList, EnglishRemoved(gesture'.text))
      ]_vars

(* C4 as amended: the same, the entry being Tâche ajoutée: "<text>" for an *)
(* addition and Tâche supprimée: "<text>" for a removal.                   *)
FrenchAdded(t) ==
    <<"T","â","c","h","e"," ","a","j","o","u","t","é","e",":"," ","\"">>
        \o t \o <<"\"">>

FrenchRemoved(t) ==
    <<"T","â","c","h","e"," ","s","u","p","p","r","i","m","é","e",":"," ","\"">>
        \o t \o <<"\"">>

C4_FrenchLogEntry ==
    [][/\ Accepted' =>
            /\ logs' = Append(logs, FrenchAdded(trim(gesture'.text)))
            /\ logList' = Append(logList, FrenchAdded(trim(gesture'.text)))
       /\ gesture'.kind = "taskDelete" =>
            /\ logs' = Append(logs, FrenchRemoved(gesture'.text))
            /\ logList' = Append(logList, FrenchRemoved(gesture'.text))
      ]_vars

C4_Witness ==
    /\ gesture.kind = "taskDelete"
    /\ Len(logs) = 2
    /\ logs[1] = FrenchAdded(gesture.text)
    /\ logs[2] = FrenchRemoved(gesture.text)
    /\ logList = logs

(* C5: when the value of the clicked task row is in the task sequence      *)
(* exactly once, the click removes that one row from the task list and     *)
(* that one element from the task sequence and from the stored form; the   *)
(* other rows and elements keep their order.                               *)
C5_RemoveSingle ==
    [][(gesture'.kind = "taskDelete" /\ gesture'.had = 1) =>
        /\ taskList' = DropAt(taskList, gesture'.row)
        /\ \E k \in 1..Len(tasks) :
              /\ tasks[k] = gesture'.text
              /\ tasks' = DropAt(tasks, k)
        /\ localStorage'["tasks"] = JSONstringify(tasks')
        /\ JSONparse(localStorage'["tasks"]) = tasks'
      ]_vars

C5_Witness ==
    /\ gesture.kind = "taskDelete"
    /\ gesture.had = 1
    /\ gesture.row = 1
    /\ tasks # <<>>
    /\ taskList = tasks

(* C6: when the value v of the clicked task row is in the task sequence    *)
(* more than once, the one removeTask call leaves no v in the task         *)
(* sequence nor in the stored form, keeps the elements other than v in     *)
(* their order, and broadcasts taskRemoved exactly once.                   *)
C6_RemoveAllDuplicates ==
    [][(gesture'.kind = "taskDelete" /\ gesture'.had > 1) =>
        LET v == gesture'.text
        IN  /\ Occurrences(tasks', v) = 0
            /\ tasks' = SelectSeq(tasks, LAMBDA t : t # v)
            /\ Len(tasks') = Len(tasks) - gesture'.had
            /\ localStorage'["tasks"] = JSONstringify(tasks')
            /\ Occurrences(JSONparse(localStorage'["tasks"]), v) = 0
            /\ SelectSeq(trace', IsNotify)
                  = <<Event("notify", "taskRemoved", v)>>
      ]_vars

C6_Witness ==
    /\ gesture.kind = "taskDelete"
    /\ gesture.had = 2
    /\ tasks = <<>>
    /\ Occurrences(taskList, gesture.text) = 1

(* C7: a click on a log row's delete button appends no log entry and       *)
(* broadcasts nothing: the task sequence, the value stored under "tasks"   *)
(* and the task list are unchanged, and the log sequence is the previous   *)
(* one without the elements equal to the row's value.                      *)
C7_LogDeleteFrame ==
    [][gesture'.kind = "logDelete" =>
        /\ tasks' = tasks
        /\ taskList' = taskList
        /\ getItem(localStorage', "tasks") = getItem(localStorage, "tasks")
        /\ SelectSeq(trace', IsNotify) = <<>>
        /\ SelectSeq(trace', IsCall) = <<>>
        /\ logs' = SelectSeq(logs, LAMBDA l : l # gesture'.text)
        /\ Len(logs') <= Len(logs)
        /\ logList' = DropAt(logList, gesture'.row)
      ]_vars

C7_Witness ==
    /\ gesture.kind = "logDelete"
    /\ gesture.had = 1
    /\ tasks # <<>>
    /\ logs # <<>>

(* C8: a submit, by click or by Enter, of an empty or whitespace-only text *)
(* shows the warning and changes neither sequence, neither stored value    *)
(* and neither list, and broadcasts nothing.                               *)
C8_BlankSubmitRejected ==
    [][Rejected' =>
        /\ SelectSeq(trace', IsAlert) = <<Event("alert", "alert", AlertMessage)>>
        /\ Len(trace') = 1
        /\ tasks' = tasks
        /\ logs' = logs
        /\ localStorage' = localStorage
        /\ taskList' = taskList
        /\ logList' = logList
      ]_vars

C8_Witness ==
    /\ Rejected
    /\ gesture.kind = "keydown"
    /\ gesture.text = <<" ">>
    /\ tasks # <<>>
    /\ logs # <<>>

(* C9: a reload rebuilds the task sequence and the log sequence that were  *)
(* persisted, element for element, renders exactly their rows, and itself  *)
(* broadcasts nothing, appends no log entry and writes nothing to          *)
(* localStorage.                                                           *)
C9_ReloadRestores ==
    [][gesture'.kind = "load" =>
        /\ tasks' = tasks
        /\ logs' = logs
        /\ "tasks" \in DOMAIN localStorage
              => JSONstringify(tasks') = localStorage["tasks"]
        /\ "logs" \in DOMAIN localStorage
              => JSONstringify(logs') = localStorage["logs"]
        /\ taskList' = tasks'
        /\ logList' = logs'
        /\ localStorage' = localStorage
        /\ trace' = <<>>
      ]_vars

C9_Witness ==
    /\ gesture.kind = "load"
    /\ Len(tasks) = 2
    /\ QuoteBackslash \in {tasks[k] : k \in 1..Len(tasks)}
    /\ Len(logs) = 1
    /\ taskList = tasks
    /\ logList = logs

(* C10: notify(data) calls every subscribed callback with data, in the     *)
(* order of subscription, once per subscription, a callback subscribed k   *)
(* times being called k times, all within the notify.                      *)
C10_NotifyCallsAllInOrder ==
    gesture.kind = "notify" =>
        trace = <<Event("notify", "observer", gesture.text)>>
                \o [k \in 1..Len(observer) |->
                        Event("call", observer[k], gesture.text)]

C10_Witness ==
    /\ gesture.kind = "notify"
    /\ Len(observer) = 3
    /\ observer[1] = observer[3]
    /\ observer[1] # observer[2]

\* s without its last element.
Front(s) == SubSeq(s, 1, Len(s) - 1)

LoadedEmpty(key, arr, rows) ==
    /\ key \notin DOMAIN localStorage
    /\ arr = <<>>
    /\ rows = <<>>
    /\ SelectSeq(trace, IsAlert) = <<>>

(* C12: when key "tasks" (respectively "logs") is absent at startup, the   *)
(* task (log) sequence is empty, no row is rendered for it, no warning is  *)
(* shown and the key is still absent afterwards; on the first load and on  *)
(* every reload.                                                           *)
C12_AbsentKeyLoadsEmpty ==
    /\ LoadedEmpty("tasks", tasks, taskList)
    /\ LoadedEmpty("logs", logs, logList)
    /\ [][gesture'.kind = "load" =>
            /\ "tasks" \notin DOMAIN localStorage
                  => LoadedEmpty("tasks", tasks, taskList)'
            /\ "logs" \notin DOMAIN localStorage
                  => LoadedEmpty("logs", logs, logList)'
         ]_vars

C12_Witness ==
    /\ gesture.kind = "load"
    /\ LoadedEmpty("tasks", tasks, taskList)
    /\ LoadedEmpty("logs", logs, logList)

(* C13: in addTask and removeTask the task sequence is changed and written *)
(* under "tasks" before the broadcast: the handler writes the              *)
(* serialization of the changed task sequence, then notifies, then the     *)
(* subscriber runs, and only then is the log sequence with the derived     *)
(* entry written under "logs"; the subscriber leaves the task sequence and *)
(* the value under "tasks" as it found them.                               *)
C13_SaveBeforeNotify ==
    (Accepted \/ gesture.kind = "taskDelete") =>
        LET v == IF Accepted THEN trim(gesture.text) ELSE gesture.text
            observerName == IF Accepted THEN "taskAdded" ELSE "taskRemoved"
            fn == IF Accepted THEN "onTaskAdded" ELSE "onTaskRemoved"
            entry == IF Accepted THEN FrenchAdded(v) ELSE FrenchRemoved(v)
        IN  /\ trace = << Event("setItem", "tasks", JSONstringify(tasks)),
                          Event("notify", observerName, v),
                          Event("call", fn, v),
                          Event("setItem", "logs", JSONstringify(logs)) >>
            /\ localStorage["tasks"] = trace[1].data
            /\ JSONparse(trace[1].data) = tasks
            /\ IF Accepted
               THEN tasks[Len(tasks)] = v
               ELSE Occurrences(tasks, v) = 0
            /\ logs[Len(logs)] = entry

C13_Witness ==
    /\ gesture.kind = "taskDelete"
    /\ gesture.had = 1
    /\ tasks # <<>>
    /\ Len(trace) = 4
    /\ trace[1].name = "tasks"
    /\ trace[4].name = "logs"

(* C14: whenever a click on a task row's delete button appends a removed   *)
(* entry for v, the removeTask call deleted at least one v from the task   *)
(* sequence: v was in the sequence when the button was clicked.            *)
C14_RemovedEntryMeansRemoval ==
    gesture.kind = "taskDelete" => gesture.had >= 1

\* The elements of a sequence.
Range(s) == {s[k] : k \in 1..Len(s)}

(* C15: after every event, each value has at least as many rows in the     *)
(* task list as occurrences in the task sequence, and at least as many     *)
(* rows in the log list as occurrences in the log sequence.                *)
C15_EveryItemHasARow ==
    /\ \A v \in Range(tasks) :
          Occurrences(taskList, v) >= Occurrences(tasks, v)
    /\ \A l \in Range(logs) :
          Occurrences(logList, l) >= Occurrences(logs, l)

C15_Witness ==
    /\ Len(tasks) = 1
    /\ Occurrences(taskList, tasks[1]) = 2
    /\ logs # <<>>

(* C16: from a store with nothing in it, after any events every element   *)
(* of the task sequence, and of the sequence stored under "tasks", is a    *)
(* non-empty string equal to its own trimmed form.                         *)
C16_TasksAreTrimmed ==
    /\ \A t \in Range(tasks) : t # <<>> /\ trim(t) = t
    /\ "tasks" \in DOMAIN localStorage =>
          \A t \in Range(JSONparse(localStorage["tasks"])) :
              t # <<>> /\ trim(t) = t

C16_Witness ==
    /\ Accepted
    /\ gesture.text = <<" ", "a", "\t">>
    /\ tasks[Len(tasks)] = <<"a">>
    /\ JSONparse(localStorage["tasks"]) = tasks

\* The number of writes the last handler made under key.
Writes(key) ==
    Len(SelectSeq(trace, LAMBDA e : e.op = "setItem" /\ e.name = key))

(* C17: an accepted submit writes once under "tasks" and once under        *)
(* "logs", and so does a click on a task row's delete button; a click on a *)
(* log row's delete button writes once under "logs" and not under          *)
(* "tasks"; a rejected submit writes nothing; and no handler broadcasts    *)
(* more than once or calls more than one subscriber, so that no subscriber *)
(* starts a further broadcast.                                             *)
C17_FixedWork ==
    /\ (Accepted \/ gesture.kind = "taskDelete") =>
          /\ Writes("tasks") = 1
          /\ Writes("logs") = 1
          /\ Len(SelectSeq(trace, IsNotify)) = 1
          /\ Len(SelectSeq(trace, IsCall)) = 1
    /\ gesture.kind = "logDelete" =>
          /\ Writes("tasks") = 0
          /\ Writes("logs") = 1
          /\ Len(SelectSeq(trace, IsNotify)) = 0
    /\ Rejected =>
          /\ SelectSeq(trace, IsSetItem) = <<>>
          /\ SelectSeq(trace, IsNotify) = <<>>
    /\ Len(SelectSeq(trace, IsNotify)) <= 1
    /\ Len(SelectSeq(trace, IsCall)) <= Len(SelectSeq(trace, IsNotify))

C17_Witness ==
    /\ gesture.kind = "taskDelete"
    /\ gesture.had = 2
    /\ Writes("tasks") = 1
    /\ Writes("logs") = 1

====
